---- MODULE Spec2Model ----
(***************************************************************************)
(* Model of mexca's data containers (src/mexca/data.py): the Multimodal    *)
(* aggregate, the interval stores it holds (SpeakerAnnotation, the         *)
(* subtitles of an AudioTranscription) and Multimodal.merge_features.      *)
(*                                                                         *)
(* Time is counted in ticks of 1/TicksPerSecond seconds, so every time of  *)
(* the model is an exact rational; frame rates are the divisors of         *)
(* TicksPerSecond, which makes every axis point i / fps_adjusted a whole   *)
(* number of ticks.  Float rounding (the float32 time axis of line 434) is *)
(* outside the model.                                                      *)
(*                                                                         *)
(* An optional value is <<>> (Python's None) or <<v>>.                     *)
(***************************************************************************)
EXTENDS Integers, Sequences, FiniteSets, TLC

VARIABLES
    duration,          \* Multimodal.duration: None or ticks
    fps,               \* Multimodal.fps: None or frames per second
    fps_adjusted,      \* Multimodal.fps_adjusted
    video_annotation,  \* Multimodal.video_annotation: None or a VideoAnnotation
    audio_annotation,  \* Multimodal.audio_annotation: None or a SpeakerAnnotation
    voice_features,    \* Multimodal.voice_features: None or a VoiceFeatures
    transcription,     \* Multimodal.transcription: None or the subtitles tree
    sentiment,         \* Multimodal.sentiment: None or the list of Sentiment
    features,          \* Multimodal.features: None or the merged table
    axis,              \* the locals time and frame of the last merge that computed them
    result,            \* what the last operation did: [op, error, value]
    file,              \* the file a writer writes and a loader reads: None or its lines
    integrator,        \* the properties of the AudioTextIntegrator
    components         \* SpeakerIdentifier and SentimentExtractor: models and calls

vars == <<duration, fps, fps_adjusted, video_annotation, audio_annotation,
          voice_features, transcription, sentiment, features, axis, result,
          file, integrator, components>>

---------------------------------------------------------------------------
(* Bounds of the model.                                                    *)

MaxFps == 2
MaxDur == 3
MaxTick == 2
MaxSize == 3
MaxLoad == 2
MaxSpans == 1
MaxCalls == 3

TicksPerSecond == MaxFps

---------------------------------------------------------------------------
(* Optional values.                                                        *)

None == <<>>
Some(v) == <<v>>
IsNone(x) == x = <<>>
Val(x) == x[1]

Min(a, b) == IF a <= b THEN a ELSE b

\* ceil(a / b) for a >= 0, b > 0
Ceil(a, b) == (a + b - 1) \div b

---------------------------------------------------------------------------
(* The interval store: intervaltree.IntervalTree, which SpeakerAnnotation  *)
(* extends and AudioTranscription.subtitles holds.  A tree is the set of   *)
(* its intervals; an interval is [begin, end, data].                       *)

Filename == "video.mp4"

\* SegmentData(filename, channel, name, conf=None)
SegmentData(channel, name) ==
    [filename |-> Filename, channel |-> channel, name |-> name, conf |-> "None"]

\* TranscriptionData(index, text)
TranscriptionData(index, text) == [index |-> index, text |-> text]

Interval(b, e, d) == [begin |-> b, end |-> e, data |-> d]

\* Interval.is_null: an interval that covers no point
IsNull(iv) == iv.begin >= iv.end

\* IntervalTree.add: an interval equal to a stored one is not added again, a
\* null interval raises ValueError before the tree is touched
\* a faulty TreeAdd, to test the properties: a null interval is stored like any other
TreeAddUnchecked(tree, iv) == [error |-> "none", tree |-> tree \cup {iv}]

\* a faulty TreeAdd, to test the properties: an interval counts as stored when
\* the tree holds one with its begin and end, whatever the data
TreeAddByBounds(tree, iv) ==
    IF \E o \in tree : o.begin = iv.begin /\ o.end = iv.end
    THEN [error |-> "none", tree |-> tree]
    ELSE IF IsNull(iv) THEN [error |-> "ValueError", tree |-> tree]
    ELSE [error |-> "none", tree |-> tree \cup {iv}]

TreeAdd(tree, iv) ==
    IF iv \in tree THEN [error |-> "none", tree |-> tree]
    ELSE IF IsNull(iv) THEN [error |-> "ValueError", tree |-> tree]
    ELSE [error |-> "none", tree |-> tree \cup {iv}]

\* IntervalTree(intervals): the constructor rejects a null interval
TreeOf(intervals) ==
    IF \E iv \in intervals : IsNull(iv)
    THEN [error |-> "ValueError", tree |-> {}]
    ELSE [error |-> "none", tree |-> intervals]

\* IntervalTree.__getitem__(point) = at(point): begin <= p < end
\* a faulty At, to test the properties: the end of an interval belongs to it
AtClosed(tree, p) == {iv \in tree : iv.begin <= p /\ p <= iv.end}

At(tree, p) == {iv \in tree : iv.begin <= p /\ p < iv.end}

\* The order in which a set of intervals is iterated: implementation-defined,
\* and the same every time the same set is iterated.
RECURSIVE SetToSeq(_)
SetToSeq(S) ==
    IF S = {} THEN <<>>
    ELSE LET x == CHOOSE y \in S : TRUE
         IN  <<x>> \o SetToSeq(S \ {x})

\* truth value of a tree (IntervalTree.__len__): empty is false
Truthy(tree) == ~IsNone(tree) /\ Val(tree) # {}

\* the intervals of an optional tree
Tree(x) == IF IsNone(x) THEN {} ELSE Val(x)

---------------------------------------------------------------------------
(* Tables (pandas.DataFrame).  A table is its columns besides the index    *)
(* (frame, time) and its rows in order; a row holds every column of the    *)
(* schema, NaN where the table has no value.  face_label stands for the    *)
(* six face_* columns, which asdict and DataFrame carry alike.             *)

NaN == -1

VideoCols == {"face_box", "face_prob", "face_landmarks", "face_aus",
              "face_label", "face_confidence"}
SegmentCols == {"segment_start", "segment_end", "segment_speaker_label"}
SpanCols == {"span_start", "span_end", "span_text"}
SentCols == {"span_sent_pos", "span_sent_neg", "span_sent_neu"}
VoiceCols == {"pitch_f0"}

NullRow ==
    [frame |-> NaN, time |-> NaN, face_label |-> NaN,
     segment_start |-> NaN, segment_end |-> NaN, segment_speaker_label |-> "NaN",
     span_start |-> NaN, span_end |-> NaN, span_text |-> "NaN",
     span_sent_pos |-> NaN, span_sent_neg |-> NaN, span_sent_neu |-> NaN,
     pitch_f0 |-> NaN]

Table(cols, rows) == [cols |-> cols, rows |-> rows]

SameKey(l, r) == l.frame = r.frame /\ l.time = r.time

\* the rows of R with the key of l, in R's order
RECURSIVE Matches(_, _, _)
Matches(l, rows, i) ==
    IF i > Len(rows) THEN <<>>
    ELSE (IF SameKey(l, rows[i]) THEN <<rows[i]>> ELSE <<>>) \o Matches(l, rows, i + 1)

\* l extended by the columns of r
Combine(l, r, rcols) == [c \in DOMAIN l |-> IF c \in rcols THEN r[c] ELSE l[c]]

\* a faulty JoinRow, to test the properties: an inner join, which drops a left row without a match
JoinRowInner(l, R) ==
    LET m == Matches(l, R.rows, 1)
    IN  [j \in 1..Len(m) |-> Combine(l, m[j], R.cols)]

\* one left row joined: its matches, or itself with the right columns NaN
JoinRow(l, R) ==
    LET m == Matches(l, R.rows, 1)
    IN  IF m = <<>> THEN <<l>>
        ELSE [j \in 1..Len(m) |-> Combine(l, m[j], R.cols)]

RECURSIVE JoinRows(_, _, _)
JoinRows(lrows, R, i) ==
    IF i > Len(lrows) THEN <<>>
    ELSE JoinRow(lrows[i], R) \o JoinRows(lrows, R, i + 1)

\* pd.merge(left, right, on=["frame", "time"], how="left")
LeftJoin(L, R) == Table(L.cols \cup R.cols, JoinRows(L.rows, R, 1))

\* reduce(lambda left, right: pd.merge(left, right, ...), dfs)
RECURSIVE Reduce(_, _)
Reduce(acc, dfs) ==
    IF dfs = <<>> THEN acc ELSE Reduce(LeftJoin(acc, Head(dfs)), Tail(dfs))

---------------------------------------------------------------------------
(* The axis of _merge_audio_text_features.                                 *)

\* len(np.arange(0.0, duration, 1/fps_adjusted)), duration d in ticks of 1/tps s
\* a faulty TimeAxisLen, to test the properties: the points whose whole step fits below the stop
TimeAxisLenFloor(d, fa, tps) == (d * fa) \div tps

\* a faulty TimeAxisLen, to test the properties: the stop is a point of the axis
TimeAxisLenInclusive(d, fa, tps) == (d * fa) \div tps + 1

TimeAxisLen(d, fa, tps) == Ceil(d * fa, tps)

\* time = np.arange(0.0, self.duration, 1/self.fps_adjusted), in ticks
TimeAxis(d, fa, tps) ==
    [i \in 1..TimeAxisLen(d, fa, tps) |-> (i - 1) * (tps \div fa)]

\* len(np.arange(0, duration*fps, fps_adjusted))
FrameAxisLen(d, f, fa, tps) == Ceil(d * f, tps * fa)

\* frame = np.arange(0, self.duration*self.fps, self.fps_adjusted)
FrameAxis(d, f, fa, tps) ==
    [i \in 1..FrameAxisLen(d, f, fa, tps) |-> (i - 1) * fa]

---------------------------------------------------------------------------
(* The modality tables of merge_features.                                  *)

\* pd.DataFrame(asdict(annotation)) raises ValueError unless every field
\* array has the same length
SameLengths(rec) == \A a, b \in DOMAIN rec : Len(rec[a]) = Len(rec[b])

\* pd.DataFrame(asdict(self.video_annotation)).set_index(['frame', 'time'])
VideoTable(va) ==
    Table(VideoCols,
          [i \in 1..Len(va.frame) |->
              [NullRow EXCEPT !.frame = va.frame[i], !.time = va.time[i],
                              !.face_label = va.face_label[i]]])

\* pd.DataFrame(asdict(self.voice_features)).set_index(['frame', 'time'])
VoiceTable(vf) ==
    Table(VoiceCols,
          [i \in 1..Len(vf.frame) |->
              [NullRow EXCEPT !.frame = vf.frame[i], !.time = vf.time[i],
                              !.pitch_f0 = vf.pitch_f0[i]]])

\* zip(frame, time): as many pairs as the shorter array has
AxisPoints(ax) ==
    [i \in 1..Min(Len(ax.frame), Len(ax.time)) |->
        [frame |-> ax.frame[i], time |-> ax.time[i]]]

\* for seg in self.audio_annotation[t]: one row per segment covering t
SegmentRows(tree, pt) ==
    LET segs == SetToSeq(At(tree, pt.time))
    IN  [j \in 1..Len(segs) |->
            [NullRow EXCEPT !.frame = pt.frame, !.time = pt.time,
                            !.segment_start = segs[j].begin,
                            !.segment_end = segs[j].end,
                            !.segment_speaker_label = segs[j].data.name]]

\* for i, t in zip(frame, time): the rows of audio_annotation_dict
RECURSIVE AudioRows(_, _, _)
AudioRows(tree, pts, i) ==
    IF i > Len(pts) THEN <<>>
    ELSE SegmentRows(tree, pts[i]) \o AudioRows(tree, pts, i + 1)

\* Lines 459-479 read span.start, span.end and span.content of the intervals
\* of the subtitles tree, which have begin, end and data: the first span the
\* loop visits raises AttributeError.  With a sentiment the loop visits
\* zip(subtitles[t], sentiment.sentiment), without one the whole tree.
SpanVisited(pts) ==
    /\ Truthy(transcription)
    /\ IF ~IsNone(sentiment)
       THEN /\ Val(sentiment) # <<>>
            /\ \E i \in 1..Len(pts) : At(Val(transcription), pts[i].time) # {}
       ELSE Len(pts) > 0

\* text_features_dict as a table: no row is ever completed (see SpanVisited)
TextTable ==
    Table(SpanCols \cup (IF IsNone(sentiment) THEN {} ELSE SentCols), <<>>)

\* Multimodal._merge_video_annotation
MergeVideoAnnotation(dfs) ==
    IF IsNone(video_annotation) THEN [error |-> "none", dfs |-> dfs]
    ELSE IF ~SameLengths(Val(video_annotation))
    THEN [error |-> "ValueError", dfs |-> dfs]
    ELSE [error |-> "none", dfs |-> Append(dfs, VideoTable(Val(video_annotation)))]

\* a value that is no number where the code computes with one: the str 'k'
NotNumber == <<0, 0>>

IsNumber(x) == Len(x) = 1

\* a faulty EntersAudioBlock, to test the properties: a transcription alone
\* opens the block as well
EntersAudioTextBlock == Truthy(audio_annotation) \/ Truthy(transcription)

\* a faulty EntersAudioBlock, to test the properties: the block is entered
\* for every SpeakerAnnotation, one without segments included
EntersAudioBlockIfPresent == ~IsNone(audio_annotation)

\* if self.audio_annotation: a SpeakerAnnotation that holds a segment
EntersAudioBlock == Truthy(audio_annotation)

\* a faulty AxisError, to test the properties: the inputs are validated and
\* the error raised is a ValueError
AxisErrorExplicit ==
    IF IsNumber(duration) /\ IsNumber(fps_adjusted) /\ IsNumber(fps)
    THEN "none" ELSE "ValueError"

\* lines 434-435: 1/self.fps_adjusted, self.duration*self.fps and numpy.arange
\* raise TypeError for an operand that is None or not a number
AxisError ==
    IF IsNumber(duration) /\ IsNumber(fps_adjusted) /\ IsNumber(fps)
    THEN "none" ELSE "TypeError"

\* the parameters of Multimodal the message of an error of merge_features
\* names: data.py raises no error of its own, the messages are those of the
\* interpreter, numpy and pandas, about operand types and array lengths
Named(error) == {}

\* Multimodal._merge_audio_text_features
MergeAudioTextFeatures(dfs) ==
    IF ~EntersAudioBlock
    THEN [error |-> "none", dfs |-> dfs, axis |-> None]
    ELSE IF AxisError # "none"
    THEN [error |-> AxisError, dfs |-> dfs, axis |-> None]
    ELSE LET ax == [time |-> TimeAxis(Val(duration), Val(fps_adjusted), TicksPerSecond),
                    frame |-> FrameAxis(Val(duration), Val(fps), Val(fps_adjusted),
                                        TicksPerSecond)]
             pts == AxisPoints(ax)
             audio == Table(SegmentCols, AudioRows(Tree(audio_annotation), pts, 1))
         IN  IF SpanVisited(pts)
             THEN [error |-> "AttributeError", dfs |-> dfs, axis |-> Some(ax)]
             ELSE [error |-> "none",
                   dfs |-> Append(dfs, IF Truthy(transcription)
                                       THEN LeftJoin(audio, TextTable)
                                       ELSE audio),
                   axis |-> Some(ax)]

\* a faulty MergeVoiceFeatures, to test the properties: an absent modality gets a table of its
\* columns without rows, a placeholder
MergeVoiceFeaturesPlaceholder(dfs) ==
    IF IsNone(voice_features)
    THEN [error |-> "none", dfs |-> Append(dfs, Table(VoiceCols, <<>>))]
    ELSE IF ~SameLengths(Val(voice_features))
    THEN [error |-> "ValueError", dfs |-> dfs]
    ELSE [error |-> "none", dfs |-> Append(dfs, VoiceTable(Val(voice_features)))]

\* a faulty MergeVoiceFeatures, to test the properties: a container whose
\* arrays differ in length is left out of the merge
MergeVoiceFeaturesLenient(dfs) ==
    IF IsNone(voice_features) \/ ~SameLengths(Val(voice_features))
    THEN [error |-> "none", dfs |-> dfs]
    ELSE [error |-> "none", dfs |-> Append(dfs, VoiceTable(Val(voice_features)))]

\* Multimodal._merge_voice_features
MergeVoiceFeatures(dfs) ==
    IF IsNone(voice_features) THEN [error |-> "none", dfs |-> dfs]
    ELSE IF ~SameLengths(Val(voice_features))
    THEN [error |-> "ValueError", dfs |-> dfs]
    ELSE [error |-> "none", dfs |-> Append(dfs, VoiceTable(Val(voice_features)))]

\* DataFrame.reset_index(): frame and time become columns again
ResetIndex(T) == Table({"frame", "time"} \cup T.cols, T.rows)

\* a faulty MergeTables, to test the properties: the tables folded from the last to the first
MergeTablesReversed(dfs) ==
    LET rev == [i \in 1..Len(dfs) |-> dfs[Len(dfs) + 1 - i]]
    IN  ResetIndex(Reduce(Head(rev), Tail(rev)))

\* the fold of merge_features over the tables collected
MergeTables(dfs) == ResetIndex(Reduce(Head(dfs), Tail(dfs)))

\* the three _merge_* calls in order; the first error ends the call
CollectTables ==
    LET v == MergeVideoAnnotation(<<>>)
        a == MergeAudioTextFeatures(v.dfs)
        o == MergeVoiceFeatures(a.dfs)
    IN  IF v.error # "none" THEN [error |-> v.error, dfs |-> <<>>, axis |-> None]
        ELSE IF a.error # "none" THEN [error |-> a.error, dfs |-> <<>>, axis |-> a.axis]
        ELSE [error |-> o.error, dfs |-> o.dfs, axis |-> a.axis]

---------------------------------------------------------------------------
(* Inputs of the model.                                                    *)

FpsValues == {f \in 1..MaxFps : TicksPerSecond % f = 0}
SpeakerLabels == {"A", "B"}

\* the speaker the diarization gives a segment: segments that overlap without
\* sharing a bound are of different speakers
SpeakerOf(b, e) == IF (b + e) % 2 = 0 THEN "A" ELSE "B"
TextOf(index) == IF index = 0 THEN "hello" ELSE "world"

\* intervals a caller may hand to SpeakerAnnotation.add, null ones included
SegmentInputs ==
    {Interval(b, e, SegmentData(1, n)) :
        b \in 0..MaxTick, e \in 0..MaxTick, n \in SpeakerLabels}

\* intervals a caller may hand to the subtitles tree, null ones included
SpanInputs ==
    {Interval(b, e, TranscriptionData(i, TextOf(i))) :
        b \in 0..MaxTick, e \in 0..MaxTick, i \in 0..MaxSpans}

\* the segments of a diarization
Segments ==
    {Interval(b, e, SegmentData(1, SpeakerOf(b, e))) :
        b \in 0..MaxTick, e \in 0..MaxTick}

\* the subtitle a transcription gets next: subtitles are numbered in source
\* order and each begins where the one before it ended
Spans(tree) ==
    LET index == Cardinality(tree)
        b == IF tree = {} THEN 0
             ELSE CHOOSE x \in {iv.end : iv \in tree} : \A iv \in tree : iv.end <= x
    IN  {Interval(b, e, TranscriptionData(index, TextOf(index))) : e \in (b + 1)..MaxTick}

\* Sentiment(index, pos, neg, neu), scores in tenths
Sentiment(index) ==
    IF index = 0 THEN [index |-> 0, pos |-> 7, neg |-> 1, neu |-> 2]
    ELSE [index |-> index, pos |-> 2, neg |-> 5, neu |-> 3]

Count(x) == IF IsNone(x) THEN 0 ELSE Len(Val(x).frame)
Card(x) == IF IsNone(x) THEN 0 ELSE Cardinality(Val(x))

\* what the Multimodal holds, counted in rows and intervals
Size ==
    Count(video_annotation) + Card(audio_annotation) + Count(voice_features)
    + Card(transcription) + (IF IsNone(sentiment) THEN 0 ELSE Len(Val(sentiment)))

\* a Python value with its type, where the type decides what happens
Py(type, val) == [type |-> type, val |-> val]

\* AudioTextIntegrator(audio_transcriber=AudioTranscriber(...)): time_step None
NewIntegrator ==
    [audio_transcriber |-> Py("AudioTranscriber", 0), time_step |-> Py("NoneType", 0)]

\* SpeakerIdentifier() and SentimentExtractor(): self._pipeline = None,
\* self._classifier = None; no apply is running
NewComponents ==
    [pipeline |-> None, classifier |-> None, pc |-> "idle", todo |-> 0,
     content |-> TRUE, calls |-> 0]

Outcome(op, error, arg, value) ==
    [op |-> op, error |-> error, arg |-> arg, value |-> value]

---------------------------------------------------------------------------
(* Multimodal.__init__: fps_adjusted defaults to fps, every container and  *)
(* features to None.                                                       *)

Init ==
    /\ duration \in {None} \cup {Some(d) : d \in 0..MaxDur}
    /\ fps \in {None} \cup {Some(f) : f \in FpsValues}
    /\ \E a \in {None} \cup {Some(f) : f \in FpsValues} :
          /\ IsNone(fps) => IsNone(a)
          /\ ~IsNone(a) => Val(a) <= Val(fps)
          /\ fps_adjusted = IF IsNone(a) THEN fps ELSE a
    /\ video_annotation = None
    /\ audio_annotation = None
    /\ voice_features = None
    /\ transcription = None
    /\ sentiment = None
    /\ features = None
    /\ axis = None
    /\ result = Outcome("init", "none", None, None)
    /\ file = None
    /\ integrator = NewIntegrator
    /\ components = NewComponents

---------------------------------------------------------------------------
(* Filling the containers.  Construction precedes the merge: nothing is    *)
(* added once merge_features has been called.                              *)

Building == result.op = "init"

\* VideoAnnotation(): every field an empty list
NewVideoAnnotation ==
    /\ Building
    /\ IsNone(video_annotation)
    /\ video_annotation' = Some([frame |-> <<>>, time |-> <<>>, face_label |-> <<>>])
    /\ UNCHANGED <<components, file, integrator, axis, result, duration, fps, fps_adjusted, audio_annotation, voice_features,
                   transcription, sentiment, features>>

\* one more face: of the last frame again (same) or of the next frame
AppendVideoRow(same) ==
    /\ Building
    /\ ~IsNone(video_annotation)
    /\ ~IsNone(fps)
    /\ Size < MaxSize
    /\ LET va == Val(video_annotation)
           n == Len(va.frame)
           f == IF n = 0 THEN 0 ELSE IF same THEN va.frame[n] ELSE va.frame[n] + 1
           label == Cardinality({i \in 1..n : va.frame[i] = f})
       IN  video_annotation' =
               Some([frame |-> Append(va.frame, f),
                     time |-> Append(va.time, f * (TicksPerSecond \div Val(fps))),
                     face_label |-> Append(va.face_label, label)])
    /\ UNCHANGED <<components, file, integrator, axis, result, duration, fps, fps_adjusted, audio_annotation, voice_features,
                   transcription, sentiment, features>>

\* VideoAnnotation(frame, time): n frames, every face field left at its
\* default, the empty list
NewVideoAnnotationFrames(n) ==
    /\ Building
    /\ IsNone(video_annotation)
    /\ ~IsNone(fps)
    /\ Size + n <= MaxSize
    /\ video_annotation' =
           Some([frame |-> [i \in 1..n |-> i - 1],
                 time |-> [i \in 1..n |-> (i - 1) * (TicksPerSecond \div Val(fps))],
                 face_label |-> <<>>])
    /\ UNCHANGED <<components, file, integrator, axis, result, duration, fps, fps_adjusted, audio_annotation, voice_features,
                   transcription, sentiment, features>>

\* VoiceFeatures(frame, time) or VoiceFeatures(frame, time, pitch_f0): one
\* record per frame 0 .. n-1; pitch_f0 defaults to the empty list
NewVoiceFeatures(n, withPitch) ==
    /\ Building
    /\ IsNone(voice_features)
    /\ ~IsNone(fps)
    /\ Size + n <= MaxSize
    /\ voice_features' =
           Some([frame |-> [i \in 1..n |-> i - 1],
                 time |-> [i \in 1..n |-> (i - 1) * (TicksPerSecond \div Val(fps))],
                 pitch_f0 |-> IF withPitch THEN [i \in 1..n |-> 100 + i] ELSE <<>>])
    /\ UNCHANGED <<components, file, integrator, axis, result, duration, fps, fps_adjusted, video_annotation, audio_annotation,
                   transcription, sentiment, features>>

\* SpeakerAnnotation(): an empty tree
NewSpeakerAnnotation ==
    /\ Building
    /\ IsNone(audio_annotation)
    /\ audio_annotation' = Some({})
    /\ UNCHANGED <<components, file, integrator, axis, result, duration, fps, fps_adjusted, video_annotation, voice_features,
                   transcription, sentiment, features>>

\* segment_tree.add(Interval(...)) while the annotation is filled: one more
\* segment of the diarization
InsertSegment(iv) ==
    /\ Building
    /\ ~IsNone(audio_annotation)
    /\ Size < MaxSize
    /\ ~IsNull(iv)
    /\ audio_annotation' = Some(TreeAdd(Val(audio_annotation), iv).tree)
    /\ UNCHANGED <<components, file, integrator, axis, result, duration, fps, fps_adjusted, video_annotation,
                   voice_features, transcription, sentiment, features>>

\* AudioTranscription(filename, IntervalTree())
NewTranscription ==
    /\ Building
    /\ IsNone(transcription)
    /\ transcription' = Some({})
    /\ UNCHANGED <<components, file, integrator, axis, result, duration, fps, fps_adjusted, video_annotation, audio_annotation,
                   voice_features, sentiment, features>>

\* one more subtitle in the subtitles tree
InsertSpan(iv) ==
    /\ Building
    /\ ~IsNone(transcription)
    /\ Size < MaxSize
    /\ Card(transcription) < MaxSpans
    /\ iv \in Spans(Val(transcription))
    /\ transcription' = Some(TreeAdd(Val(transcription), iv).tree)
    /\ UNCHANGED <<components, file, integrator, axis, result, duration, fps, fps_adjusted, video_annotation,
                   audio_annotation, voice_features, sentiment, features>>

\* SentimentAnnotation(): an empty list
NewSentiment ==
    /\ Building
    /\ IsNone(sentiment)
    /\ sentiment' = Some(<<>>)
    /\ UNCHANGED <<components, file, integrator, axis, result, duration, fps, fps_adjusted, video_annotation, audio_annotation,
                   voice_features, transcription, features>>

\* self.sentiment.sentiment.append(Sentiment(index, ...)): the sentiment of
\* the next subtitle
AppendSentiment ==
    /\ Building
    /\ ~IsNone(sentiment)
    /\ Size < MaxSize
    /\ Len(Val(sentiment)) < MaxSpans
    /\ sentiment' = Some(Append(Val(sentiment), Sentiment(Len(Val(sentiment)))))
    /\ UNCHANGED <<components, file, integrator, axis, result, duration, fps, fps_adjusted, video_annotation, audio_annotation,
                   voice_features, transcription, features>>

---------------------------------------------------------------------------
(* Multimodal.merge_features.                                              *)

\* a faulty MergedFeatures, to test the properties: an empty table when nothing was collected
MergedFeaturesNeverNone(c) ==
    IF c.error # "none" THEN features
    ELSE IF Len(c.dfs) > 0 THEN Some(MergeTables(c.dfs))
    ELSE Some(Table({"frame", "time"}, <<>>))

\* self.features after the call: assigned only when a table was collected
MergedFeatures(c) ==
    IF c.error = "none" /\ Len(c.dfs) > 0 THEN Some(MergeTables(c.dfs)) ELSE features

\* a faulty MergeFeatures, to test the properties: the voice features are
\* handed over to the table and the container is dropped
MergeFeaturesConsuming ==
    LET c == CollectTables
    IN  /\ features' = MergedFeatures(c)
        /\ axis' = c.axis
        /\ result' = Outcome("merge_features", c.error, None,
                             IF c.error = "none" THEN MergedFeatures(c) ELSE None)
        /\ voice_features' = IF c.error = "none" THEN None ELSE voice_features
        /\ UNCHANGED <<components, file, integrator, duration, fps, fps_adjusted,
                       video_annotation, audio_annotation, transcription, sentiment>>

\* Multimodal.merge_features
MergeFeatures ==
    LET c == CollectTables
    IN  /\ features' = MergedFeatures(c)
        /\ axis' = c.axis
        /\ result' = Outcome("merge_features", c.error, None,
                             IF c.error = "none" THEN MergedFeatures(c) ELSE None)
        /\ UNCHANGED <<components, file, integrator, duration, fps, fps_adjusted, video_annotation,
                       audio_annotation, voice_features, transcription, sentiment>>

Next ==
    \/ NewVideoAnnotation
    \/ \E n \in 1..MaxLoad : NewVideoAnnotationFrames(n)
    \/ \E same \in BOOLEAN : AppendVideoRow(same)
    \/ \E n \in 1..MaxSize, p \in BOOLEAN : NewVoiceFeatures(n, p)
    \/ NewSpeakerAnnotation
    \/ \E iv \in Segments : InsertSegment(iv)
    \/ NewTranscription
    \/ \E iv \in Spans(Tree(transcription)) : InsertSpan(iv)
    \/ NewSentiment
    \/ AppendSentiment
    \/ MergeFeatures

Spec == Init /\ [][Next]_vars

---------------------------------------------------------------------------
(* The interval stores on their own: adds, loads and point queries, with   *)
(* the outcome of each call recorded in result.                            *)

\* the tracks of a pyannote annotation: (segment, label)
Tracks == [start : 0..MaxTick, end : 0..MaxTick, label : SpeakerLabels]

\* the lines of an RTTM file: tbeg and tdur, tdur possibly 0
RttmRows ==
    {[file |-> Filename, chnl |-> 1, tbeg |-> b, tdur |-> d, name |-> n] :
        b \in 0..MaxTick, d \in 0..MaxTick, n \in SpeakerLabels}

\* the subtitles of an SRT file
Subtitles == [index : 0..MaxSpans, start : 0..MaxTick, end : 0..MaxTick]

\* the interval from_rttm makes of a line: end = tbeg + tdur
RttmInterval(row) ==
    Interval(row.tbeg, row.tbeg + row.tdur, SegmentData(row.chnl, row.name))

\* the interval from_pyannote makes of a track: channel 1, name str(spk)
PyannoteInterval(track) ==
    Interval(track.start, track.end, SegmentData(1, track.label))

\* the interval from_srt makes of a subtitle
SrtInterval(sub) ==
    Interval(sub.start, sub.end, TranscriptionData(sub.index, TextOf(sub.index)))

InitStore == Init /\ IsNone(duration) /\ IsNone(fps)

\* self.audio_annotation.add(iv)
AddSegment(iv) ==
    /\ ~IsNone(audio_annotation)
    /\ Card(audio_annotation) < MaxSize
    /\ LET r == TreeAdd(Val(audio_annotation), iv)
       IN  /\ audio_annotation' = Some(r.tree)
           /\ result' = Outcome("add", r.error, Some(iv), None)
    /\ UNCHANGED <<components, file, integrator, axis, duration, fps, fps_adjusted, video_annotation,
                   voice_features, transcription, sentiment, features>>

\* self.transcription.subtitles.add(iv)
AddSpan(iv) ==
    /\ ~IsNone(transcription)
    /\ Card(transcription) < MaxSpans
    /\ LET r == TreeAdd(Val(transcription), iv)
       IN  /\ transcription' = Some(r.tree)
           /\ result' = Outcome("add_span", r.error, Some(iv), None)
    /\ UNCHANGED <<components, file, integrator, axis, duration, fps, fps_adjusted, video_annotation,
                   audio_annotation, voice_features, sentiment, features>>

\* self.audio_annotation[t]
Query(t) ==
    /\ ~IsNone(audio_annotation)
    /\ result' = Outcome("query", "none", Some(t), Some(At(Val(audio_annotation), t)))
    /\ UNCHANGED <<components, file, integrator, axis, duration, fps, fps_adjusted, video_annotation,
                   audio_annotation, voice_features, transcription, sentiment,
                   features>>

\* A loader at work: result.op names it, result.value holds its local tree
\* (from_srt: its local list, as a set) and result.error the first failure.
Loading(op) == result.op = op /\ result.error = "none"
Local == Val(result.value)

\* from_rttm: segment_tree = cls()
FromRttmOpen ==
    /\ result' = Outcome("from_rttm", "none", None, Some({}))
    /\ UNCHANGED <<components, file, integrator, axis, duration, fps, fps_adjusted, video_annotation,
                   audio_annotation, voice_features, transcription, sentiment,
                   features>>

\* from_rttm: one line of the file: segment_tree.add(segment)
FromRttmRow(row) ==
    /\ Loading("from_rttm")
    /\ Cardinality(Local) < MaxLoad
    /\ LET r == TreeAdd(Local, RttmInterval(row))
       IN  result' = Outcome("from_rttm", r.error, Some(RttmInterval(row)), Some(r.tree))
    /\ UNCHANGED <<components, file, integrator, axis, duration, fps, fps_adjusted, video_annotation,
                   audio_annotation, voice_features, transcription, sentiment,
                   features>>

\* from_rttm: return segment_tree, which the caller keeps
FromRttmReturn ==
    /\ Loading("from_rttm")
    /\ audio_annotation' = Some(Local)
    /\ result' = Outcome("loaded", "none", None, None)
    /\ UNCHANGED <<components, file, integrator, axis, duration, fps, fps_adjusted, video_annotation,
                   voice_features, transcription, sentiment, features>>

\* from_pyannote: segment_tree = cls()
FromPyannoteOpen ==
    /\ result' = Outcome("from_pyannote", "none", None, Some({}))
    /\ UNCHANGED <<components, file, integrator, axis, duration, fps, fps_adjusted, video_annotation,
                   audio_annotation, voice_features, transcription, sentiment,
                   features>>

\* from_pyannote: one track: segment_tree.add(Interval(...))
FromPyannoteTrack(track) ==
    /\ Loading("from_pyannote")
    /\ Cardinality(Local) < MaxLoad
    /\ LET r == TreeAdd(Local, PyannoteInterval(track))
       IN  result' = Outcome("from_pyannote", r.error, Some(PyannoteInterval(track)),
                             Some(r.tree))
    /\ UNCHANGED <<components, file, integrator, axis, duration, fps, fps_adjusted, video_annotation,
                   audio_annotation, voice_features, transcription, sentiment,
                   features>>

\* from_pyannote: return segment_tree
FromPyannoteReturn ==
    /\ Loading("from_pyannote")
    /\ audio_annotation' = Some(Local)
    /\ result' = Outcome("loaded", "none", None, None)
    /\ UNCHANGED <<components, file, integrator, axis, duration, fps, fps_adjusted, video_annotation,
                   voice_features, transcription, sentiment, features>>

\* from_srt: intervals = []
FromSrtOpen ==
    /\ result' = Outcome("from_srt", "none", None, Some({}))
    /\ UNCHANGED <<components, file, integrator, axis, duration, fps, fps_adjusted, video_annotation,
                   audio_annotation, voice_features, transcription, sentiment,
                   features>>

\* from_srt: one subtitle: intervals.append(Interval(...)), which checks nothing
FromSrtSubtitle(sub) ==
    /\ Loading("from_srt")
    /\ Cardinality(Local) < MaxLoad
    /\ result' = Outcome("from_srt", "none", Some(SrtInterval(sub)),
                         Some(Local \cup {SrtInterval(sub)}))
    /\ UNCHANGED <<components, file, integrator, axis, duration, fps, fps_adjusted, video_annotation,
                   audio_annotation, voice_features, transcription, sentiment,
                   features>>

\* from_srt: return cls(filename, subtitles=IntervalTree(intervals))
FromSrtReturn ==
    /\ Loading("from_srt")
    /\ LET r == TreeOf(Local)
       IN  /\ transcription' = IF r.error = "none" THEN Some(r.tree) ELSE transcription
           /\ result' = IF r.error = "none" THEN Outcome("loaded", "none", None, None)
                        ELSE Outcome("from_srt", r.error, None, None)
    /\ UNCHANGED <<components, file, integrator, axis, duration, fps, fps_adjusted, video_annotation,
                   audio_annotation, voice_features, sentiment, features>>

\* one store is exercised at a time, from its construction on
Fresh == Building /\ IsNone(audio_annotation) /\ IsNone(transcription)

NextStore ==
    \/ Fresh /\ NewSpeakerAnnotation
    \/ Fresh /\ NewTranscription
    \/ \E iv \in SegmentInputs : AddSegment(iv)
    \/ \E iv \in SpanInputs : AddSpan(iv)
    \/ \E t \in 0..MaxTick : Query(t)
    \/ Fresh /\ FromRttmOpen
    \/ \E row \in RttmRows : FromRttmRow(row)
    \/ FromRttmReturn
    \/ Fresh /\ FromPyannoteOpen
    \/ \E track \in Tracks : FromPyannoteTrack(track)
    \/ FromPyannoteReturn
    \/ Fresh /\ FromSrtOpen
    \/ \E sub \in Subtitles : FromSrtSubtitle(sub)
    \/ FromSrtReturn

SpecStore == InitStore /\ [][NextStore]_vars

---------------------------------------------------------------------------
(* Files (specification SpecFile).  In this specification a time is a      *)
(* number of thirds of a millisecond: rounding to two decimals and          *)
(* truncation to milliseconds are exact and never meet a half.  A file is   *)
(* its lines and a line its cells, a cell being a number or a string.  The  *)
(* destination of a writer is a new file.                                   *)

UnitsPerMs == 3
UnitsPerCs == 30

MaxCs == 1

\* times on and beside the grid of the hundredths of a second
FileTimes == {c * UnitsPerCs + o : c \in 0..MaxCs, o \in {0, 1, UnitsPerCs - 1}}

Str(s) == [kind |-> "str", num |-> 0, str |-> s]
Num(n) == [kind |-> "num", num |-> n, str |-> ""]
NA == Str("<NA>")

\* round(col, 2) of a time
Round2(t) == UnitsPerCs * ((2 * t + UnitsPerCs) \div (2 * UnitsPerCs))

\* the segments of a diarization, on the times of this specification
FileSegments ==
    {Interval(b, e, SegmentData(1, SpeakerOf(b, e))) : b \in FileTimes, e \in FileTimes}

\* SpeakerAnnotation.__str__, one segment: the columns printed with end=" ",
\* a None as <NA>, a float rounded
RttmLine(seg) ==
    << Str("SPEAKER"), Str(seg.data.filename), Num(seg.data.channel),
       Num(Round2(seg.begin)), Num(Round2(seg.end)), NA, NA, NA,
       IF seg.data.name = "None" THEN NA ELSE Str(seg.data.name),
       IF seg.data.conf = "None" THEN NA ELSE Str(seg.data.conf) >>

\* a writer at work: result.value holds what it has still to write
Writing(op) == result.op = op /\ result.error = "none" /\ ~IsNone(result.value)

\* a writer that returned
Written(op) == result.op = op /\ result.error = "none" /\ IsNone(result.value)

\* write_rttm: open(filename, "w")
WriteRttmOpen ==
    /\ Building
    /\ ~IsNone(audio_annotation)
    /\ IsNone(file)
    /\ file' = Some(<<>>)
    /\ result' = Outcome("write_rttm", "none", None, Some(Val(audio_annotation)))
    /\ UNCHANGED <<components, integrator, axis, duration, fps, fps_adjusted, video_annotation,
                   audio_annotation, voice_features, transcription, sentiment,
                   features>>

\* write_rttm: for seg in self.items(), in the order of the set: one line
WriteRttmLine(seg) ==
    /\ Writing("write_rttm")
    /\ seg \in Val(result.value)
    /\ file' = Some(Append(Val(file), RttmLine(seg)))
    /\ result' = Outcome("write_rttm", "none", None, Some(Val(result.value) \ {seg}))
    /\ UNCHANGED <<components, integrator, axis, duration, fps, fps_adjusted, video_annotation,
                   audio_annotation, voice_features, transcription, sentiment,
                   features>>

\* write_rttm: the file is closed
WriteRttmClose ==
    /\ Writing("write_rttm")
    /\ Val(result.value) = {}
    /\ result' = Outcome("write_rttm", "none", None, None)
    /\ UNCHANGED <<components, file, integrator, axis, duration, fps, fps_adjusted,
                   video_annotation, audio_annotation, voice_features,
                   transcription, sentiment, features>>

\* row.split(" "): the cells and, after the last space, the line end
RowSplit(line) == line \o <<Str("\n")>>

\* from_rttm, one line: the cells at 1, 2, 3, 4 and 7 (from 0), "<NA>" read as
\* None; float() and int() refuse None and a text that is no number
ParseRttm(line) ==
    LET c == RowSplit(line)
        none == [file |-> "", chnl |-> 0, tbeg |-> 0, tdur |-> 0, name |-> ""]
    IN  IF Len(c) < 5 THEN [error |-> "IndexError", row |-> none]
        ELSE IF \E i \in {3, 4, 5} : c[i] = NA THEN [error |-> "TypeError", row |-> none]
        ELSE IF \E i \in {3, 4, 5} : c[i].kind # "num"
        THEN [error |-> "ValueError", row |-> none]
        ELSE IF Len(c) < 8 THEN [error |-> "IndexError", row |-> none]
        ELSE [error |-> "none",
              row |-> [file |-> c[2].str, chnl |-> c[3].num, tbeg |-> c[4].num,
                       tdur |-> c[5].num,
                       name |-> IF c[8] = NA THEN "None" ELSE c[8].str]]

\* from_rttm: for row in file: segment_tree.add(segment)
RECURSIVE ReadRttm(_, _, _)
ReadRttm(lines, i, tree) ==
    IF i > Len(lines) THEN [error |-> "none", tree |-> tree]
    ELSE LET p == ParseRttm(lines[i])
             r == TreeAdd(tree, RttmInterval(p.row))
         IN  IF p.error # "none" THEN [error |-> p.error, tree |-> tree]
             ELSE IF r.error # "none" THEN r
             ELSE ReadRttm(lines, i + 1, r.tree)

\* SpeakerAnnotation.from_rttm(filename) of the file written: result.value is
\* the collection returned, audio_annotation the one that was written
LoadRttm ==
    /\ Written("write_rttm")
    /\ LET r == ReadRttm(Val(file), 1, {})
       IN  result' = Outcome("from_rttm_file", r.error, None, Some(r.tree))
    /\ UNCHANGED <<components, file, integrator, axis, duration, fps, fps_adjusted,
                   video_annotation, audio_annotation, voice_features,
                   transcription, sentiment, features>>

\* the spans of a transcription as a caller may number them: from 0 or from
\* 1, with gaps, in any order
FileSpans ==
    {Interval(c * UnitsPerCs + o, d * UnitsPerCs + q, TranscriptionData(i, TextOf(i))) :
        c \in 0..MaxCs, d \in 0..MaxCs, o \in {0, 1}, q \in {0, 1}, i \in 0..(MaxSpans + 1)}

\* self.transcription.subtitles.add(iv), while the transcription is built
InsertSubtitle(iv) ==
    /\ Building
    /\ ~IsNone(transcription)
    /\ Card(transcription) < MaxLoad
    /\ ~IsNull(iv)
    /\ transcription' = Some(TreeAdd(Val(transcription), iv).tree)
    /\ UNCHANGED <<components, file, integrator, axis, result, duration, fps, fps_adjusted,
                   video_annotation, audio_annotation, voice_features, sentiment,
                   features>>

\* srt.timedelta_to_srt_timestamp: hours, minutes, seconds and whole
\* milliseconds; what is below a millisecond is cut
TruncMs(t) == UnitsPerMs * (t \div UnitsPerMs)

\* srt.Subtitle.__lt__: by start, end, index
SubtitleLess(a, b) ==
    \/ a.begin < b.begin
    \/ a.begin = b.begin /\ a.end < b.end
    \/ a.begin = b.begin /\ a.end = b.end /\ a.data.index < b.data.index

\* sorted(subtitles)
RECURSIVE SortSubtitles(_)
SortSubtitles(S) ==
    IF S = {} THEN <<>>
    ELSE LET m == CHOOSE a \in S : \A b \in S \ {a} : ~SubtitleLess(b, a)
         IN  <<m>> \o SortSubtitles(S \ {m})

\* srt.sort_and_reindex(skip=True): a subtitle without content is left out
ShouldSkip(iv) == iv.data.text = ""

\* srt.compose(subtitles): reindex=True and start_index=1 by default, so the
\* subtitles are sorted, those to skip left out, and the rest numbered 1, 2, ..
\* whatever index they had; each block is index, start --> end, content
Compose(S) ==
    LET subs == SortSubtitles({iv \in S : ~ShouldSkip(iv)})
    IN  [k \in 1..Len(subs) |->
            << Num(k), Num(TruncMs(subs[k].begin)), Num(TruncMs(subs[k].end)),
               Str(subs[k].data.text) >>]

\* write_srt: the subtitles are listed, then open(filename, 'w')
WriteSrtOpen ==
    /\ Building
    /\ ~IsNone(transcription)
    /\ IsNone(file)
    /\ file' = Some(<<>>)
    /\ result' = Outcome("write_srt", "none", None, Some(Val(transcription)))
    /\ UNCHANGED <<components, integrator, axis, duration, fps, fps_adjusted, video_annotation,
                   audio_annotation, voice_features, transcription, sentiment,
                   features>>

\* write_srt: file.write(srt.compose(subtitles)), and the file is closed
WriteSrtCompose ==
    /\ Writing("write_srt")
    /\ file' = Some(Compose(Val(result.value)))
    /\ result' = Outcome("write_srt", "none", None, None)
    /\ UNCHANGED <<components, integrator, axis, duration, fps, fps_adjusted, video_annotation,
                   audio_annotation, voice_features, transcription, sentiment,
                   features>>

\* from_srt, one block: the Interval of a subtitle parsed
ParseSrt(block) ==
    Interval(block[2].num, block[3].num, TranscriptionData(block[1].num, block[4].str))

\* AudioTranscription.from_srt(filename) of the file written: result.value is
\* the tree returned, transcription the one that was written
LoadSrt ==
    /\ Written("write_srt")
    /\ LET r == TreeOf({ParseSrt(Val(file)[k]) : k \in 1..Len(Val(file))})
       IN  result' = Outcome("from_srt_file", r.error, None, Some(r.tree))
    /\ UNCHANGED <<components, file, integrator, axis, duration, fps, fps_adjusted,
                   video_annotation, audio_annotation, voice_features,
                   transcription, sentiment, features>>

\* a numpy.float32 in an array: a value json.dump has no encoding for
Float32 == -2

\* VoiceFeatures(frame, time, pitch_f0) with the pitches given, NaN where no
\* pitch was found
NewVoiceFeaturesOf(pitch) ==
    /\ Building
    /\ IsNone(voice_features)
    /\ ~IsNone(fps)
    /\ voice_features' =
           Some([frame |-> [i \in 1..Len(pitch) |-> i - 1],
                 time |-> [i \in 1..Len(pitch) |-> (i - 1) * (TicksPerSecond \div Val(fps))],
                 pitch_f0 |-> pitch])
    /\ UNCHANGED <<components, file, integrator, axis, result, duration, fps, fps_adjusted,
                   video_annotation, audio_annotation, transcription, sentiment,
                   features>>

\* a frame without a face: the face features are numpy.nan
AppendVideoNoFace ==
    /\ Building
    /\ ~IsNone(video_annotation)
    /\ ~IsNone(fps)
    /\ Size < MaxSize
    /\ LET va == Val(video_annotation)
           n == Len(va.frame)
           f == IF n = 0 THEN 0 ELSE va.frame[n] + 1
       IN  video_annotation' =
               Some([frame |-> Append(va.frame, f),
                     time |-> Append(va.time, f * (TicksPerSecond \div Val(fps))),
                     face_label |-> Append(va.face_label, NaN)])
    /\ UNCHANGED <<components, file, integrator, axis, result, duration, fps, fps_adjusted,
                   audio_annotation, voice_features, transcription, sentiment,
                   features>>

JsonObjects == {"video_annotation", "voice_features", "sentiment"}

\* the object of a name, None when the Multimodal has none
ObjectOf(obj) ==
    CASE obj = "video_annotation" -> video_annotation
      [] obj = "voice_features" -> voice_features
      [] obj = "sentiment" -> sentiment

\* the values of the dicts of a list of Sentiment, in the order of the fields
SentimentValues(l) ==
    [k \in 1..(4 * Len(l)) |->
        LET r == l[(k - 1) \div 4 + 1]
        IN  CASE (k - 1) % 4 = 0 -> r.index
              [] (k - 1) % 4 = 1 -> r.pos
              [] (k - 1) % 4 = 2 -> r.neg
              [] OTHER -> r.neu]

\* dataclasses.asdict(self): the fields in the order of their declaration
AsDict(obj) ==
    CASE obj = "video_annotation" ->
            << [key |-> "frame", values |-> Val(video_annotation).frame],
               [key |-> "time", values |-> Val(video_annotation).time],
               [key |-> "face_label", values |-> Val(video_annotation).face_label] >>
      [] obj = "voice_features" ->
            << [key |-> "frame", values |-> Val(voice_features).frame],
               [key |-> "time", values |-> Val(voice_features).time],
               [key |-> "pitch_f0", values |-> Val(voice_features).pitch_f0] >>
      [] obj = "sentiment" ->
            << [key |-> "sentiment", values |-> SentimentValues(Val(sentiment))] >>

\* a faulty JsonCell, to test the properties: allow_nan left out of the
\* encoding, a NaN written as null
JsonCellNull(v) == IF v = NaN THEN Str("null") ELSE Num(v)

\* json.dump(..., allow_nan=True), one number: NaN is written as NaN
JsonCell(v) == IF v = NaN THEN Str("NaN") ELSE Num(v)

\* json.load, one value: NaN is read as float('nan')
JsonValue(c) == IF c = Str("NaN") THEN NaN ELSE c.num

\* the values json.dump writes of an array before it meets one it cannot encode
Encodable(values) ==
    IF \E i \in 1..Len(values) : values[i] = Float32
    THEN SubSeq(values, 1,
                (CHOOSE i \in 1..Len(values) :
                    /\ values[i] = Float32
                    /\ \A j \in 1..(i - 1) : values[j] # Float32) - 1)
    ELSE values

\* write_json: open(filename, 'w')
WriteJsonOpen(obj) ==
    /\ Building
    /\ ~IsNone(ObjectOf(obj))
    /\ IsNone(file)
    /\ file' = Some(<<>>)
    /\ result' = Outcome("write_json", "none", Some(obj), Some(AsDict(obj)))
    /\ UNCHANGED <<components, integrator, axis, duration, fps, fps_adjusted, video_annotation,
                   audio_annotation, voice_features, transcription, sentiment,
                   features>>

\* write_json: json.dump writes the chunks of the encoder as they come: a
\* field, its key and its values; a value without encoding raises TypeError
\* after the chunks before it
WriteJsonField ==
    /\ Writing("write_json")
    /\ Val(result.value) # <<>>
    /\ LET f == Head(Val(result.value))
           cells == [i \in 1..Len(Encodable(f.values)) |-> JsonCell(f.values[i])]
       IN  /\ file' = Some(Append(Val(file), <<Str(f.key)>> \o cells))
           /\ result' = IF Len(cells) < Len(f.values)
                        THEN Outcome("write_json", "TypeError", result.arg, None)
                        ELSE Outcome("write_json", "none", result.arg,
                                     Some(Tail(Val(result.value))))
    /\ UNCHANGED <<components, integrator, axis, duration, fps, fps_adjusted, video_annotation,
                   audio_annotation, voice_features, transcription, sentiment,
                   features>>

\* write_json: the file is closed
WriteJsonClose ==
    /\ Writing("write_json")
    /\ Val(result.value) = <<>>
    /\ result' = Outcome("write_json", "none", result.arg, None)
    /\ UNCHANGED <<components, file, integrator, axis, duration, fps, fps_adjusted,
                   video_annotation, audio_annotation, voice_features,
                   transcription, sentiment, features>>

\* data[key] of the dict json.load returns
JsonArray(lines, key) ==
    LET l == CHOOSE l \in {lines[k] : k \in 1..Len(lines)} : l[1] = Str(key)
    IN  [k \in 1..(Len(l) - 1) |-> JsonValue(l[k + 1])]

\* SentimentAnnotation.from_dict: a Sentiment of each dict of the list
Sentiments(values) ==
    [k \in 1..(Len(values) \div 4) |->
        [index |-> values[4 * k - 3], pos |-> values[4 * k - 2],
         neg |-> values[4 * k - 1], neu |-> values[4 * k]]]

\* cls._from_dict(json.load(file)): the fields of the class, by their names
FromDict(obj, lines) ==
    CASE obj = "video_annotation" ->
            [frame |-> JsonArray(lines, "frame"), time |-> JsonArray(lines, "time"),
             face_label |-> JsonArray(lines, "face_label")]
      [] obj = "voice_features" ->
            [frame |-> JsonArray(lines, "frame"), time |-> JsonArray(lines, "time"),
             pitch_f0 |-> JsonArray(lines, "pitch_f0")]
      [] obj = "sentiment" -> Sentiments(JsonArray(lines, "sentiment"))

\* from_json(filename) of the file written: result.value is the object
\* returned, beside the one that was written
LoadJson ==
    /\ Written("write_json")
    /\ result' = Outcome("from_json_file", "none", result.arg,
                         Some(FromDict(Val(result.arg), Val(file))))
    /\ UNCHANGED <<components, file, integrator, axis, duration, fps, fps_adjusted,
                   video_annotation, audio_annotation, voice_features,
                   transcription, sentiment, features>>

\* the pitches of a recording: found, not found, or left as numpy.float32
Pitches ==
    UNION {[1..n -> {100, NaN, Float32}] : n \in 1..MaxLoad}

InitFile == Init /\ IsNone(duration) /\ ~IsNone(fps) /\ fps = fps_adjusted

\* one object is written and read back, from its construction on
Alone ==
    /\ Building
    /\ IsNone(video_annotation) /\ IsNone(audio_annotation) /\ IsNone(voice_features)
    /\ IsNone(transcription) /\ IsNone(sentiment)

NextFile ==
    \/ Alone /\ NewSpeakerAnnotation
    \/ \E iv \in FileSegments : Card(audio_annotation) < MaxLoad /\ InsertSegment(iv)
    \/ WriteRttmOpen
    \/ \E seg \in Tree(audio_annotation) : WriteRttmLine(seg)
    \/ WriteRttmClose
    \/ LoadRttm
    \/ Alone /\ NewTranscription
    \/ \E iv \in FileSpans : InsertSubtitle(iv)
    \/ WriteSrtOpen
    \/ WriteSrtCompose
    \/ LoadSrt
    \/ Alone /\ NewVideoAnnotation
    \/ \E same \in BOOLEAN : AppendVideoRow(same)
    \/ AppendVideoNoFace
    \/ \E pitch \in Pitches : Alone /\ NewVoiceFeaturesOf(pitch)
    \/ Alone /\ NewSentiment
    \/ AppendSentiment
    \/ \E obj \in JsonObjects : WriteJsonOpen(obj)
    \/ WriteJsonField
    \/ WriteJsonClose
    \/ LoadJson

SpecFile == InitFile /\ [][NextFile]_vars

---------------------------------------------------------------------------
(* Assignments (specification SpecAssign): the attributes of a Multimodal,  *)
(* which are plain attributes, and the properties of an                     *)
(* AudioTextIntegrator, whose setters validate what they are given.         *)

\* what a caller assigns to duration or fps: a number or the str 'k'
DurationValues == {NotNumber} \cup {Some(d) : d \in 0..MaxDur}
FpsAssigned == {NotNumber} \cup {Some(f) : f \in FpsValues}

\* what a caller assigns to time_step: 'k', -2.0, 1.0
TimeStepValues == {Py("str", 0), Py("float", 0 - 2), Py("float", 1)}

\* what a caller assigns to audio_transcriber: 'k', an AudioTranscriber
TranscriberValues == {Py("str", 0), Py("AudioTranscriber", 1)}

\* assignments precede the merge
Assigning == result.op # "merge_features"

\* a faulty AssignDuration, to test the properties: a value that is no
\* number is refused with TypeError
AssignDurationChecked(v) ==
    /\ Assigning
    /\ duration' = IF IsNumber(v) THEN v ELSE duration
    /\ result' = Outcome("set_duration", IF IsNumber(v) THEN "none" ELSE "TypeError",
                         Some(v), None)
    /\ UNCHANGED <<components, file, integrator, axis, fps, fps_adjusted, video_annotation,
                   audio_annotation, voice_features, transcription, sentiment,
                   features>>

\* self.duration = duration: the value is stored as given
AssignDuration(v) ==
    /\ Assigning
    /\ duration' = v
    /\ result' = Outcome("set_duration", "none", Some(v), None)
    /\ UNCHANGED <<components, file, integrator, axis, fps, fps_adjusted, video_annotation,
                   audio_annotation, voice_features, transcription, sentiment,
                   features>>

\* self.fps = fps: the value is stored as given
AssignFps(v) ==
    /\ Assigning
    /\ fps' = v
    /\ result' = Outcome("set_fps", "none", Some(v), None)
    /\ UNCHANGED <<components, file, integrator, axis, duration, fps_adjusted, video_annotation,
                   audio_annotation, voice_features, transcription, sentiment,
                   features>>

\* the error of the setter of time_step: TypeError for a value that is no
\* number, ValueError for a negative one
TimeStepSetterError(v) ==
    IF v.type # "float" THEN "TypeError"
    ELSE IF v.val < 0 THEN "ValueError"
    ELSE "none"

\* audio_text_integrator.time_step = v
SetTimeStep(v) ==
    /\ Assigning
    /\ integrator' = IF TimeStepSetterError(v) = "none"
                     THEN [integrator EXCEPT !.time_step = v]
                     ELSE integrator
    /\ result' = Outcome("set_time_step", TimeStepSetterError(v), Some(v), None)
    /\ UNCHANGED <<components, file, axis, duration, fps, fps_adjusted, video_annotation,
                   audio_annotation, voice_features, transcription, sentiment,
                   features>>

\* the error of the setter of audio_transcriber: TypeError for a value that
\* is no AudioTranscriber
TranscriberError(v) == IF v.type # "AudioTranscriber" THEN "TypeError" ELSE "none"

\* audio_text_integrator.audio_transcriber = v
SetAudioTranscriber(v) ==
    /\ Assigning
    /\ integrator' = IF TranscriberError(v) = "none"
                     THEN [integrator EXCEPT !.audio_transcriber = v]
                     ELSE integrator
    /\ result' = Outcome("set_audio_transcriber", TranscriberError(v), Some(v), None)
    /\ UNCHANGED <<components, file, axis, duration, fps, fps_adjusted, video_annotation,
                   audio_annotation, voice_features, transcription, sentiment,
                   features>>

NextAssign ==
    \/ NewSpeakerAnnotation
    \/ \E iv \in Segments : InsertSegment(iv)
    \/ \E v \in DurationValues : AssignDuration(v)
    \/ \E v \in FpsAssigned : AssignFps(v)
    \/ \E v \in TimeStepValues : SetTimeStep(v)
    \/ \E v \in TranscriberValues : SetAudioTranscriber(v)
    \/ MergeFeatures

SpecAssign == Init /\ [][NextAssign]_vars

---------------------------------------------------------------------------
(* The components with a pretrained model (specification SpecApply):       *)
(* SpeakerIdentifier, whose property pipeline loads the diarization        *)
(* pipeline, and SentimentExtractor, whose property classifier loads the   *)
(* classification model.  An apply runs line by line; components.pc is the *)
(* line it has reached, "idle" when no apply runs.  Calls follow each      *)
(* other, as in the pipeline script.                                        *)

\* what a collaborator (from_pretrained, the pipeline, the tokenizer, the
\* classifier) does when called: it returns or raises
CollaboratorOutcomes == {"none", "RuntimeError"}

\* no apply is running
Idle == components.pc = "idle"

\* the end of an apply: the error, if any, reaches the caller
Ends(op, error) ==
    /\ result' = Outcome(op, error, None, None)
    /\ UNCHANGED <<duration, fps, fps_adjusted, video_annotation, audio_annotation,
                   voice_features, transcription, sentiment, features, axis, file,
                   integrator>>

\* an apply goes on
Continues ==
    UNCHANGED <<duration, fps, fps_adjusted, video_annotation, audio_annotation,
                voice_features, transcription, sentiment, features, axis, file,
                integrator, result>>

\* identifier.apply(filepath) is called
IdentifierApply ==
    /\ Idle
    /\ components.calls < MaxCalls
    /\ components' = [components EXCEPT !.pc = "identifier_pipeline",
                                        !.calls = components.calls + 1]
    /\ Ends("identifier_apply", "none")

\* line 82, self.pipeline: the getter loads the pipeline if self._pipeline is
\* None, and from_pretrained may raise
IdentifierPipeline(e) ==
    /\ components.pc = "identifier_pipeline"
    /\ IF ~IsNone(components.pipeline)
       THEN /\ e = "none"
            /\ components' = [components EXCEPT !.pc = "identifier_call"]
            /\ Continues
       ELSE IF e = "none"
       THEN /\ components' = [components EXCEPT !.pipeline = Some("Pipeline"),
                                                !.pc = "identifier_call"]
            /\ Continues
       ELSE /\ components' = [components EXCEPT !.pc = "idle"]
            /\ Ends("identifier_apply", e)

\* line 82, the pipeline is called on the file: it returns the annotation or
\* raises, and an error leaves apply at once
IdentifierCall(e) ==
    /\ components.pc = "identifier_call"
    /\ IF e = "none"
       THEN /\ components' = [components EXCEPT !.pc = "identifier_del"]
            /\ Continues
       ELSE /\ components' = [components EXCEPT !.pc = "idle"]
            /\ Ends("identifier_apply", e)

\* line 84, del self.pipeline: the deleter sets self._pipeline = None
IdentifierDel ==
    /\ components.pc = "identifier_del"
    /\ components' = [components EXCEPT !.pipeline = None, !.pc = "identifier_return"]
    /\ Continues

\* lines 86-88: the annotation is converted and returned; the conversion
\* raises ValueError for a segment without extent
IdentifierReturn(e) ==
    /\ components.pc = "identifier_return"
    /\ components' = [components EXCEPT !.pc = "idle"]
    /\ Ends("identifier_apply", e)

\* extractor.apply(transcription) is called with n sentences, lines 87-89;
\* the sentences have an attribute content (subtitles of srt) or have none
\* (the intervals of an AudioTranscription)
ExtractorApply(n, content) ==
    /\ Idle
    /\ components.calls < MaxCalls
    /\ components' = [components EXCEPT
                         !.pc = IF n > 0 THEN "extractor_tokenize" ELSE "extractor_del",
                         !.todo = n,
                         !.content = content,
                         !.calls = components.calls + 1]
    /\ Ends("extractor_apply", "none")

\* line 91, self.tokenizer(sent.content, ...): AttributeError for a sentence
\* without content, and the tokenizer may raise
ExtractorTokenize(e) ==
    /\ components.pc = "extractor_tokenize"
    /\ IF ~components.content
       THEN /\ e = "none"
            /\ components' = [components EXCEPT !.pc = "idle", !.todo = 0]
            /\ Ends("extractor_apply", "AttributeError")
       ELSE IF e = "none"
       THEN /\ components' = [components EXCEPT !.pc = "extractor_classifier"]
            /\ Continues
       ELSE /\ components' = [components EXCEPT !.pc = "idle", !.todo = 0]
            /\ Ends("extractor_apply", e)

\* line 92, self.classifier: the getter loads the model if self._classifier
\* is None, and from_pretrained may raise
ExtractorClassifier(e) ==
    /\ components.pc = "extractor_classifier"
    /\ IF ~IsNone(components.classifier)
       THEN /\ e = "none"
            /\ components' = [components EXCEPT !.pc = "extractor_call"]
            /\ Continues
       ELSE IF e = "none"
       THEN /\ components' = [components EXCEPT !.classifier = Some("Classifier"),
                                                !.pc = "extractor_call"]
            /\ Continues
       ELSE /\ components' = [components EXCEPT !.pc = "idle", !.todo = 0]
            /\ Ends("extractor_apply", e)

\* lines 92-100: the classifier is called and the Sentiment of the sentence
\* appended; an error leaves apply at once
ExtractorCall(e) ==
    /\ components.pc = "extractor_call"
    /\ IF e = "none"
       THEN /\ components' = [components EXCEPT
                                 !.todo = components.todo - 1,
                                 !.pc = IF components.todo > 1 THEN "extractor_tokenize"
                                        ELSE "extractor_del"]
            /\ Continues
       ELSE /\ components' = [components EXCEPT !.pc = "idle", !.todo = 0]
            /\ Ends("extractor_apply", e)

\* lines 102-104, del self.classifier: the deleter sets self._classifier =
\* None; the annotation is returned
ExtractorDel ==
    /\ components.pc = "extractor_del"
    /\ components' = [components EXCEPT !.classifier = None, !.pc = "idle"]
    /\ Ends("extractor_apply", "none")

NextApply ==
    \/ IdentifierApply
    \/ \E e \in CollaboratorOutcomes : IdentifierPipeline(e)
    \/ \E e \in CollaboratorOutcomes : IdentifierCall(e)
    \/ IdentifierDel
    \/ \E e \in {"none", "ValueError"} : IdentifierReturn(e)
    \/ \E n \in 0..MaxLoad, content \in BOOLEAN : ExtractorApply(n, content)
    \/ \E e \in CollaboratorOutcomes : ExtractorTokenize(e)
    \/ \E e \in CollaboratorOutcomes : ExtractorClassifier(e)
    \/ \E e \in CollaboratorOutcomes : ExtractorCall(e)
    \/ ExtractorDel

\* the components are used on their own, without a Multimodal
InitApply == Init /\ IsNone(duration) /\ IsNone(fps)

SpecApply == InitApply /\ [][NextApply]_vars

---------------------------------------------------------------------------
(* Properties of merge_features (specification Spec).                      *)

\* merge_features was the last call and returned
Merged == result.op = "merge_features" /\ result.error = "none"

Rows == Val(features).rows

KeyOf(r) == [frame |-> r.frame, time |-> r.time]

\* the pairs (frame, time) the loop of the last merge visited
VisitedPoints ==
    IF IsNone(axis) THEN {}
    ELSE {[frame |-> Val(axis).frame[i], time |-> Val(axis).time[i]] :
             i \in 1..Min(Len(Val(axis).frame), Len(Val(axis).time))}

\* the segments the audio table holds under key k
Concurrent(k) == IF k \in VisitedPoints THEN At(Tree(audio_annotation), k.time) ELSE {}

HasSegment(r, seg) ==
    /\ r.segment_start = seg.begin
    /\ r.segment_end = seg.end
    /\ r.segment_speaker_label = seg.data.name

NoSegment(r) ==
    /\ r.segment_start = NaN
    /\ r.segment_end = NaN
    /\ r.segment_speaker_label = "NaN"

AllAbsent ==
    /\ IsNone(video_annotation)
    /\ IsNone(audio_annotation)
    /\ IsNone(voice_features)
    /\ IsNone(transcription)
    /\ IsNone(sentiment)

\* C1: merge_features on a Multimodal without any modality returns None: no
\* table, empty or not, and no error; features stays None.
C1_NoModalityReturnsNone ==
    (result.op = "merge_features" /\ AllAbsent) =>
        /\ result.error = "none"
        /\ IsNone(result.value)
        /\ IsNone(features)

C1_Witness == result.op = "merge_features" /\ AllAbsent

\* the rows of the merged table with the key of video row i
Group(i) ==
    {j \in 1..Len(Rows) :
        KeyOf(Rows[j]) = [frame |-> Val(video_annotation).frame[i],
                          time |-> Val(video_annotation).time[i]]}

\* C2: with a VideoAnnotation, whatever else is present, every frame of it is in
\* the merged table as one row group: contiguous, holding each video row of the
\* frame once per segment concurrent at the frame's (frame, time) key (once
\* without segment when there is none), and no row of the table has another key.
C2_MergeCompleteness ==
    (Merged /\ ~IsNone(video_annotation)) =>
        LET va == Val(video_annotation)
            n == Len(va.frame)
        IN  /\ ~IsNone(features)
            /\ \A j \in 1..Len(Rows) : \E i \in 1..n : j \in Group(i)
            /\ \A i \in 1..n :
                  LET k == [frame |-> va.frame[i], time |-> va.time[i]]
                      faces == {h \in 1..n : va.frame[h] = k.frame /\ va.time[h] = k.time}
                      segs == Concurrent(k)
                  IN  /\ Cardinality(Group(i)) =
                             Cardinality(faces)
                             * (IF segs = {} THEN 1 ELSE Cardinality(segs))
                      /\ \A a, b \in Group(i) : \A j \in a..b : j \in Group(i)
                      /\ \A seg \in segs :
                            \E j \in Group(i) :
                                /\ Rows[j].face_label = va.face_label[i]
                                /\ HasSegment(Rows[j], seg)
                      /\ segs = {} =>
                            \E j \in Group(i) :
                                /\ Rows[j].face_label = va.face_label[i]
                                /\ NoSegment(Rows[j])

\* a merged table in which a frame with two faces meets two concurrent segments,
\* or one face two segments beside voice features
C2_Witness ==
    /\ Merged
    /\ ~IsNone(video_annotation)
    /\ \E i \in 1..Len(Val(video_annotation).frame) :
          /\ Cardinality(Concurrent([frame |-> Val(video_annotation).frame[i],
                                     time |-> Val(video_annotation).time[i]])) = 2
          /\ Cardinality(Group(i)) = 2

\* every row of the video table is in the merged table
VideoKept ==
    LET va == Val(video_annotation)
    IN  \A i \in 1..Len(va.frame) :
            \E j \in 1..Len(Rows) :
                /\ KeyOf(Rows[j]) = [frame |-> va.frame[i], time |-> va.time[i]]
                /\ Rows[j].face_label = va.face_label[i]

\* the segment row of axis point k and segment seg is in the merged table
SegmentKept(k, seg) ==
    \E j \in 1..Len(Rows) : KeyOf(Rows[j]) = k /\ HasSegment(Rows[j], seg)

\* row i of the voice features is in the merged table
VoiceKept(i) ==
    LET vf == Val(voice_features)
    IN  \E j \in 1..Len(Rows) :
            /\ KeyOf(Rows[j]) = [frame |-> vf.frame[i], time |-> vf.time[i]]
            /\ Rows[j].pitch_f0 = vf.pitch_f0[i]

VideoKeys ==
    {[frame |-> Val(video_annotation).frame[i], time |-> Val(video_annotation).time[i]] :
        i \in 1..Len(Val(video_annotation).frame)}

\* the keys of the audio table: the visited points some segment covers
AudioKeys == {k \in VisitedPoints : Concurrent(k) # {}}

\* C3 as claimed: every row of every table supplied is in the merged table.
C3_NothingDropped ==
    (Merged /\ ~IsNone(features)) =>
        /\ ~IsNone(video_annotation) => VideoKept
        /\ \A k \in VisitedPoints : \A seg \in Concurrent(k) : SegmentKept(k, seg)
        /\ ~IsNone(voice_features) =>
              \A i \in 1..Len(Val(voice_features).frame) : VoiceKept(i)

\* C3 amended: no row of the first table present (video, else audio, else voice)
\* is dropped; a row of a later table is in the merged table exactly when its
\* key is a key of the first table.
C3_FirstTableKept ==
    (Merged /\ ~IsNone(features)) =>
        LET first == IF ~IsNone(video_annotation) THEN VideoKeys
                     ELSE IF Truthy(audio_annotation) THEN AudioKeys
                     ELSE {[frame |-> Val(voice_features).frame[i],
                            time |-> Val(voice_features).time[i]] :
                              i \in 1..Len(Val(voice_features).frame)}
        IN  /\ ~IsNone(video_annotation) => VideoKept
            /\ \A k \in VisitedPoints : \A seg \in Concurrent(k) :
                  SegmentKept(k, seg) <=> k \in first
            /\ ~IsNone(voice_features) =>
                  \A i \in 1..Len(Val(voice_features).frame) :
                      VoiceKept(i) <=>
                          [frame |-> Val(voice_features).frame[i],
                           time |-> Val(voice_features).time[i]] \in first

\* a merge that kept a video row and dropped a voice row
C3_Witness ==
    /\ Merged
    /\ ~IsNone(video_annotation)
    /\ Len(Val(video_annotation).frame) > 0
    /\ ~IsNone(voice_features)
    /\ \E i \in 1..Len(Val(voice_features).frame) : ~VoiceKept(i)

\* the rows of R with the key of l
NMatch(l, R) == Cardinality({r \in 1..Len(R) : SameKey(l, R[r])})

\* the rows row i of L gives in a left outer join with R
Width(L, R, i) == IF NMatch(L[i], R) = 0 THEN 1 ELSE NMatch(L[i], R)

\* the rows the rows before row i of L give
Offset(L, R, i) ==
    Cardinality({p \in (1..(i - 1)) \X (1..(Len(R) + 1)) : p[2] <= Width(L, R, p[1])})

\* the left outer join of L and R on (frame, time), row by row: row n belongs
\* to the row i of L whose range holds n, and carries its j-th match in R
LeftOuterRows(L, R, rcols) ==
    [n \in 1..Offset(L, R, Len(L) + 1) |->
        LET i == CHOOSE h \in 1..Len(L) : Offset(L, R, h) < n /\ n <= Offset(L, R, h + 1)
            j == n - Offset(L, R, i)
        IN  IF NMatch(L[i], R) = 0 THEN L[i]
            ELSE LET r == CHOOSE q \in 1..Len(R) :
                              /\ SameKey(L[i], R[q])
                              /\ Cardinality({u \in 1..q : SameKey(L[i], R[u])}) = j
                 IN  [c \in DOMAIN L[i] |-> IF c \in rcols THEN R[r][c] ELSE L[i][c]]]

\* the tables of the modalities present, in the order video, audio/text, voice
PresentTables ==
    (IF IsNone(video_annotation) THEN <<>>
     ELSE <<VideoTable(Val(video_annotation))>>)
    \o (IF ~Truthy(audio_annotation) THEN <<>>
        ELSE <<Table(SegmentCols
                     \cup (IF ~Truthy(transcription) THEN {}
                           ELSE SpanCols \cup (IF IsNone(sentiment) THEN {} ELSE SentCols)),
                     AudioRows(Val(audio_annotation), AxisPoints(Val(axis)), 1))>>)
    \o (IF IsNone(voice_features) THEN <<>>
        ELSE <<VoiceTable(Val(voice_features))>>)

\* C4: the merged table is the left outer join on (frame, time) of the tables
\* of the modalities present, folded video, audio/text, voice; a modality that
\* is absent gives no table and no column: the columns are frame, time and the
\* columns of the tables present.  Without any table there is no merged table.
C4_LeftJoinFold ==
    Merged =>
        LET t == PresentTables
            r1 == t[1].rows
            r2 == IF Len(t) >= 2 THEN LeftOuterRows(r1, t[2].rows, t[2].cols) ELSE r1
            r3 == IF Len(t) >= 3 THEN LeftOuterRows(r2, t[3].rows, t[3].cols) ELSE r2
        IN  IF t = <<>> THEN IsNone(features)
            ELSE /\ ~IsNone(features)
                 /\ Val(features).cols =
                        {"frame", "time"} \cup UNION {t[i].cols : i \in 1..Len(t)}
                 /\ Rows = r3

\* a merge of all three tables with a row that holds a face, a segment and a pitch
C4_Witness ==
    /\ Merged
    /\ Len(PresentTables) = 3
    /\ \E j \in 1..Len(Rows) :
          /\ Rows[j].face_label # NaN
          /\ Rows[j].segment_start # NaN
          /\ Rows[j].pitch_f0 # NaN

\* C5 as claimed: for every point t of the time axis and every stored segment
\* with start <= t < end the audio table has exactly one row of t and the
\* segment.  The audio table is the merged table when no video annotation
\* stands before it in the join.
C5_OneRowPerSegment ==
    (Merged /\ Truthy(audio_annotation) /\ IsNone(video_annotation)) =>
        \A i \in 1..Len(Val(axis).time) :
            \A seg \in At(Val(audio_annotation), Val(axis).time[i]) :
                Cardinality({j \in 1..Len(Rows) :
                                /\ Rows[j].time = Val(axis).time[i]
                                /\ HasSegment(Rows[j], seg)}) = 1

\* merge_features computed the axes
AxisComputed == result.op = "merge_features" /\ ~IsNone(axis)

\* 1/fps_adjusted in ticks
Step == TicksPerSecond \div Val(fps_adjusted)

\* C6 as claimed: the time axis has floor(duration * fps_adjusted) points,
\* t_i = i / fps_adjusted.
C6_TimeAxisFloor ==
    AxisComputed =>
        LET n == (Val(duration) * Val(fps_adjusted)) \div TicksPerSecond
        IN  /\ Len(Val(axis).time) = n
            /\ \A i \in 1..n : Val(axis).time[i] = (i - 1) * Step

\* C6 amended: the time axis is t_i = i / fps_adjusted for
\* i = 0 .. ceil(duration * fps_adjusted) - 1: every multiple of
\* 1 / fps_adjusted below duration, the last step possibly cut by duration.
\* Duration 5.0 and fps_adjusted 10 give the 50 points 0.0 .. 4.9.
C6_TimeAxisCeil ==
    /\ TimeAxis(50, 10, 10) = [i \in 1..50 |-> i - 1]
    /\ AxisComputed =>
          LET t == Val(axis).time
          IN  /\ \A i \in 1..Len(t) : t[i] = (i - 1) * Step /\ t[i] < Val(duration)
              /\ Len(t) * Step >= Val(duration)

\* a time axis whose last step is cut by duration
C6_Witness ==
    /\ AxisComputed
    /\ (Val(duration) * Val(fps_adjusted)) % TicksPerSecond # 0
    /\ Len(Val(axis).time) = (Val(duration) * Val(fps_adjusted)) \div TicksPerSecond + 1

\* a / b rounded to the nearest integer
RoundDiv(a, b) == (2 * a + b) \div (2 * b)

\* C7 as claimed: the frame axis is as long as the time axis and its i-th
\* entry is i * (fps / fps_adjusted), rounded.
C7_FrameAxis ==
    AxisComputed =>
        /\ Len(Val(axis).frame) = Len(Val(axis).time)
        /\ \A i \in 1..Len(Val(axis).frame) :
              Val(axis).frame[i] = RoundDiv((i - 1) * Val(fps), Val(fps_adjusted))

SegmentsOnly ==
    /\ result.op = "merge_features"
    /\ Truthy(audio_annotation)
    /\ IsNone(video_annotation)
    /\ IsNone(voice_features)
    /\ ~IsNone(duration)
    /\ ~IsNone(fps_adjusted)

WellFormed ==
    /\ IsNone(video_annotation) \/ SameLengths(Val(video_annotation))
    /\ IsNone(voice_features) \/ SameLengths(Val(voice_features))

HasSpan(r, span) ==
    /\ r.span_start = span.begin
    /\ r.span_end = span.end
    /\ r.span_text = span.data.text

HasScores(r, sent) ==
    /\ r.span_sent_pos = sent.pos
    /\ r.span_sent_neg = sent.neg
    /\ r.span_sent_neu = sent.neu

\* C15: with a Segment collection, a transcription and a SentimentAnnotation
\* (and nothing else) merge_features returns a table where every axis point
\* that a segment and a span cover has a row with the start, end and text of
\* the span and the scores of the Sentiment whose index is the span's,
\* wherever that Sentiment stands in the sequence.
C15_SpanSentimentMerged ==
    (/\ result.op = "merge_features"
     /\ Truthy(audio_annotation) /\ Truthy(transcription) /\ ~IsNone(sentiment)
     /\ IsNone(video_annotation) /\ IsNone(voice_features)
     /\ AxisError = "none")
    => /\ Merged
       /\ \A k \in VisitedPoints : \A span \in At(Val(transcription), k.time) :
             Concurrent(k) # {} =>
                \E i \in 1..Len(Rows) :
                    /\ KeyOf(Rows[i]) = k
                    /\ HasSpan(Rows[i], span)
                    /\ \A j \in 1..Len(Val(sentiment)) :
                          Val(sentiment)[j].index = span.data.index
                              => HasScores(Rows[i], Val(sentiment)[j])

\* the axis merge_features would compute for the duration and frame rates
ExpectedPoints ==
    AxisPoints([time |-> TimeAxis(Val(duration), Val(fps_adjusted), TicksPerSecond),
                frame |-> FrameAxis(Val(duration), Val(fps), Val(fps_adjusted),
                                    TicksPerSecond)])

TranscriptAlone ==
    /\ result.op = "merge_features"
    /\ ~Truthy(audio_annotation)
    /\ Truthy(transcription)

\* C16 as claimed: with a transcription and no Segment collection
\* merge_features merges the transcript: the table has, for every axis point t
\* and every span with span.start <= t <= span.end, a row with the fields of
\* the span.
C16_TranscriptMergedAlone ==
    (TranscriptAlone /\ WellFormed /\ AxisError = "none")
    => /\ Merged
       /\ ~IsNone(features)
       /\ SpanCols \subseteq Val(features).cols
       /\ \A i \in 1..Len(ExpectedPoints) : \A span \in Val(transcription) :
             (span.begin <= ExpectedPoints[i].time /\ ExpectedPoints[i].time <= span.end)
                 => \E j \in 1..Len(Rows) :
                       /\ KeyOf(Rows[j]) = ExpectedPoints[i]
                       /\ HasSpan(Rows[j], span)

\* C16, amended: with a transcription and no Segment collection (none, or one
\* without segments) merge_features leaves the transcript out: it computes no
\* axis and visits no span, fails only for a container of arrays of different
\* lengths, and returns the merge of the video annotation and the voice
\* features alone, without segment or span column, or None if there is neither.
C16_TranscriptSkippedWithoutSegments ==
    TranscriptAlone
    => /\ IsNone(axis)
       /\ result.error \in {"none", "ValueError"}
       /\ result.error = "ValueError" <=> ~WellFormed
       /\ result.error = "none" =>
             /\ result.value = features
             /\ IsNone(features) <=> (IsNone(video_annotation) /\ IsNone(voice_features))
             /\ ~IsNone(features) =>
                   Val(features).cols \cap (SegmentCols \cup SpanCols \cup SentCols) = {}

C16_Witness ==
    /\ TranscriptAlone
    /\ result.error = "none"
    /\ AxisError = "none"
    /\ ~IsNone(features)
    /\ \E i \in 1..Len(ExpectedPoints) : \E span \in Val(transcription) :
          span.begin <= ExpectedPoints[i].time /\ ExpectedPoints[i].time <= span.end

\* C17 as claimed: the arrays of every VideoAnnotation and VoiceFeatures
\* that exists have one length: one with arrays of different lengths cannot be
\* constructed.
C17_EqualLengthsAtConstruction == WellFormed

\* C17, amended: a VideoAnnotation or VoiceFeatures with arrays of different
\* lengths can be constructed; the failure comes in merge_features, which
\* raises ValueError when it builds the table of the container (unless the
\* audio part has raised before it reaches the voice features) and leaves
\* features as it was.
C17_ShapeErrorAtMerge ==
    (result.op = "merge_features" /\ ~WellFormed)
    => /\ result.error # "none"
       /\ IsNone(features)
       /\ (~IsNone(video_annotation) /\ ~SameLengths(Val(video_annotation)))
             => (result.error = "ValueError" /\ IsNone(axis))
       /\ ~EntersAudioBlock => result.error = "ValueError"

C17_Witness ==
    /\ result.op = "merge_features"
    /\ result.error = "ValueError"
    /\ IsNone(video_annotation)
    /\ ~IsNone(voice_features)
    /\ Len(Val(voice_features).frame) = 2
    /\ Len(Val(voice_features).time) = 2
    /\ Val(voice_features).pitch_f0 = <<>>

\* merge_features needs the axis and duration or fps is None
MissingAxisInput ==
    /\ Truthy(audio_annotation)
    /\ IsNone(duration) \/ IsNone(fps)
    /\ IsNone(video_annotation) \/ SameLengths(Val(video_annotation))

\* C18 as claimed: merge_features with a Segment collection that holds a
\* segment and without duration or fps fails with an error that names the
\* missing parameter, computes no axis and leaves features as it was.
C18_ExplicitMissingParameter ==
    (result.op = "merge_features" /\ MissingAxisInput)
    => /\ result.error # "none"
       /\ IsNone(duration) => "duration" \in Named(result.error)
       /\ IsNone(fps) => "fps" \in Named(result.error)
       /\ IsNone(axis)
       /\ IsNone(features)

\* C18, amended: merge_features with a Segment collection that holds a
\* segment and without duration or fps fails with the TypeError of the
\* arithmetic on None, which names no parameter; it substitutes no default,
\* computes no axis and leaves features as it was.
C18_MissingAxisInputTypeError ==
    [][(result'.op = "merge_features" /\ MissingAxisInput)
       => /\ result'.error = "TypeError"
          /\ Named(result'.error) = {}
          /\ IsNone(axis')
          /\ features' = features
          /\ duration' = duration /\ fps' = fps /\ fps_adjusted' = fps_adjusted]_vars

C18_Witness ==
    /\ result.op = "merge_features"
    /\ MissingAxisInput
    /\ IsNone(duration)
    /\ ~IsNone(fps)
    /\ result.error = "TypeError"

\* C23: merge_features reads the containers and writes features only: a call
\* leaves duration, fps, fps_adjusted, the video annotation, the segment
\* collection, the voice features, the transcription and the sentiment as they
\* were, and a call that follows a call returns what that one returned and
\* leaves features as that one left it.
C23_MergeReadsOnly ==
    [][result'.op = "merge_features"
       => /\ duration' = duration /\ fps' = fps /\ fps_adjusted' = fps_adjusted
          /\ video_annotation' = video_annotation
          /\ audio_annotation' = audio_annotation
          /\ voice_features' = voice_features
          /\ transcription' = transcription
          /\ sentiment' = sentiment
          /\ result'.error # "none" => features' = features
          /\ result'.error = "none" => features' = result'.value
          /\ result.op = "merge_features" => (result' = result /\ features' = features)
      ]_vars

\* a merge of video annotation, segments and voice features has returned
C23_Witness ==
    /\ Merged
    /\ ~IsNone(features)
    /\ ~IsNone(video_annotation) /\ Val(video_annotation).frame # <<>>
    /\ Truthy(audio_annotation)
    /\ ~IsNone(voice_features)
    /\ VoiceCols \subseteq Val(features).cols

EmptyCollection == ~IsNone(audio_annotation) /\ Val(audio_annotation) = {}

\* C24: merge_features treats a Segment collection without interval as an
\* absent one: it computes no axis and so never fails for a missing duration
\* or fps, leaves the transcription and the sentiment out, and returns the
\* merge of the video annotation and the voice features alone, None if there
\* is neither.
C24_EmptyCollectionAsAbsent ==
    (result.op = "merge_features" /\ EmptyCollection)
    => /\ IsNone(axis)
       /\ result.error = IF WellFormed THEN "none" ELSE "ValueError"
       /\ result.error = "none" =>
             /\ result.value = features
             /\ features = IF PresentTables = <<>> THEN None
                           ELSE Some(MergeTables(PresentTables))
             /\ (IsNone(video_annotation) /\ IsNone(voice_features)) => IsNone(features)
             /\ ~IsNone(features) =>
                   Val(features).cols \cap (SegmentCols \cup SpanCols \cup SentCols) = {}

\* a merge without duration, with an empty Segment collection, a transcription
\* and a sentiment, and nothing else
C24_Witness ==
    /\ result.op = "merge_features"
    /\ result.error = "none"
    /\ EmptyCollection
    /\ IsNone(duration)
    /\ Truthy(transcription)
    /\ ~IsNone(sentiment)
    /\ IsNone(video_annotation) /\ IsNone(voice_features)
    /\ IsNone(result.value)

---------------------------------------------------------------------------
(* Properties of the interval store (specification SpecStore).             *)

\* C9: a point query at t returns exactly the stored intervals with
\* begin <= t < end: the end is excluded, intervals that overlap at t are both
\* returned, and the result is empty when no interval covers t.
C9_PointQuery ==
    /\ LET A == Interval(0, 4, SegmentData(1, "A"))
           B == Interval(2, 6, SegmentData(1, "B"))
       IN  At({A, B}, 3) = {A, B}
    /\ result.op = "query" =>
          /\ result.error = "none"
          /\ Val(result.value) \subseteq Val(audio_annotation)
          /\ \A iv \in Val(audio_annotation) :
                iv \in Val(result.value)
                    <=> (iv.begin <= Val(result.arg) /\ Val(result.arg) < iv.end)

\* a query two overlapping intervals answer, at the end of a third
C9_Witness ==
    /\ result.op = "query"
    /\ Cardinality(Val(result.value)) = 2
    /\ \E iv \in Val(audio_annotation) : iv.end = Val(result.arg)

\* the operations that insert one interval, given in result.arg
Inserts == {"add", "add_span", "from_rttm", "from_pyannote"}

\* C10 as claimed: the insertion of an interval with begin >= end fails with
\* InvalidIntervalError.
C10_InvalidIntervalError ==
    (/\ result.op \in Inserts
     /\ ~IsNone(result.arg)
     /\ IsNull(Val(result.arg))) => result.error = "InvalidIntervalError"

\* C10 amended: the insertion of an interval with begin >= end (directly, from
\* an RTTM line, from a pyannote track) fails with the ValueError of the
\* interval tree, and the store holds what it held before; from_srt fails with
\* ValueError when it builds the tree of the subtitles read, and no store
\* results.  No store ever holds such an interval.
C10_NullIntervalRejected ==
    [][/\ (/\ result'.op \in Inserts
           /\ ~IsNone(result'.arg)
           /\ IsNull(Val(result'.arg))) =>
              /\ result'.error = "ValueError"
              /\ audio_annotation' = audio_annotation
              /\ transcription' = transcription
              /\ result'.op \in {"from_rttm", "from_pyannote"} =>
                    result'.value = result.value
       /\ (Loading("from_srt") /\ \E iv \in Local : IsNull(iv)) =>
              /\ transcription' = transcription
              /\ result'.op = "from_srt"
              /\ IsNone(result'.value) => result'.error = "ValueError"
       /\ \A iv \in Tree(audio_annotation') \cup Tree(transcription') : ~IsNull(iv)
      ]_vars

\* a null interval refused by a store that holds an interval
C10_Witness ==
    /\ result.op = "add"
    /\ IsNull(Val(result.arg))
    /\ result.error = "ValueError"
    /\ Val(audio_annotation) # {}

\* the operations that add one segment, given in result.arg, to a Segment
\* collection: add, and the add of each row or track a loader reads
SegmentAdds == {"add", "from_rttm", "from_pyannote"}

\* C22: a Segment collection holds an interval once: the add of an interval
\* equal to a stored one (begin, end, filename, channel, speaker label,
\* confidence) leaves the collection as it is, and the add of any other
\* interval with begin < end, one that overlaps stored ones or differs from one
\* in its speaker label only, adds it and drops none; this for add and for the
\* adds of from_rttm and from_pyannote.
C22_IdenticalStoredOnce ==
    [][(/\ result'.op \in SegmentAdds
        /\ ~IsNone(result'.arg)
        /\ ~IsNull(Val(result'.arg)))
       => LET iv == Val(result'.arg)
              before == IF result'.op = "add" THEN Val(audio_annotation)
                        ELSE Val(result.value)
              after == IF result'.op = "add" THEN Val(audio_annotation')
                       ELSE Val(result'.value)
          IN  /\ result'.error = "none"
              /\ iv \in after
              /\ before \subseteq after
              /\ IF iv \in before THEN after = before
                 ELSE Cardinality(after) = Cardinality(before) + 1
      ]_vars

\* after an add, the collection holds the interval added, one that differs
\* from it in the speaker label only and one that overlaps it
C22_Witness ==
    /\ result.op = "add"
    /\ result.error = "none"
    /\ Val(result.arg) \in Val(audio_annotation)
    /\ \E o \in Val(audio_annotation) :
          /\ o.begin = Val(result.arg).begin
          /\ o.end = Val(result.arg).end
          /\ o.data.name # Val(result.arg).data.name
    /\ \E o \in Val(audio_annotation) :
          /\ o.begin > Val(result.arg).begin
          /\ o.begin < Val(result.arg).end

---------------------------------------------------------------------------
(* Properties of the files (specification SpecFile).                       *)

Abs(x) == IF x < 0 THEN 0 - x ELSE x

\* C11 as claimed: write_rttm then from_rttm gives as many segments, each
\* with begin and end within 0.01 s of the original and with its speaker
\* label and channel.
C11_RttmRoundTrip ==
    result.op = "from_rttm_file" =>
        /\ result.error = "none"
        /\ Cardinality(Val(result.value)) = Cardinality(Val(audio_annotation))
        /\ \A seg \in Val(audio_annotation) :
              \E l \in Val(result.value) :
                  /\ Abs(l.begin - seg.begin) <= UnitsPerCs
                  /\ Abs(l.end - seg.end) <= UnitsPerCs
                  /\ l.data.name = seg.data.name
                  /\ l.data.channel = seg.data.channel

\* C12 as claimed: a line of write_rttm has 9 cells, the cells from_rttm
\* reads where it reads them: type marker, filename, channel, begin at 4,
\* duration end - begin at 5, the speaker label at 8, the confidence last, and
\* <NA> for what is missing.
C12_RttmLineFormat ==
    (result.op = "write_rttm" /\ ~IsNone(file)) =>
        \A k \in 1..Len(Val(file)) :
            LET line == Val(file)[k]
            IN  /\ Len(line) = 9
                /\ \E seg \in Val(audio_annotation) :
                      /\ line[1] = Str("SPEAKER")
                      /\ line[2] = Str(seg.data.filename)
                      /\ line[3] = Num(seg.data.channel)
                      /\ line[4] = Num(Round2(seg.begin))
                      /\ line[5] = Num(Round2(seg.end - seg.begin))
                      /\ line[6] = NA
                      /\ line[7] = NA
                      /\ line[8] = Str(seg.data.name)
                      /\ line[9] = NA

\* C13: write_json then from_json gives an object equal to the one written,
\* array by array and element by element, a NaN where a NaN was: for a
\* VideoAnnotation, a VoiceFeatures and a SentimentAnnotation.
C13_JsonRoundTrip ==
    result.op = "from_json_file" =>
        /\ result.error = "none"
        /\ Val(result.value) = Val(ObjectOf(Val(result.arg)))

\* voice features read back with a pitch that is missing and one that is not
C13_Witness ==
    /\ result.op = "from_json_file"
    /\ Val(result.arg) = "voice_features"
    /\ \E i, j \in 1..Len(Val(result.value).pitch_f0) :
          /\ Val(result.value).pitch_f0[i] = NaN
          /\ Val(result.value).pitch_f0[j] # NaN

\* C14 as claimed: write_srt then from_srt gives the same spans, each with its
\* index, start, end and text, whatever the indices are.
C14_SrtRoundTrip ==
    result.op = "from_srt_file" =>
        /\ result.error = "none"
        /\ Val(result.value) = Val(transcription)

\* the lines of the file of a write_json that wrote every field
JsonComplete(obj) ==
    [i \in 1..Len(AsDict(obj)) |->
        <<Str(AsDict(obj)[i].key)>> \o
        [j \in 1..Len(AsDict(obj)[i].values) |-> JsonCell(AsDict(obj)[i].values[j])]]

\* C20: a writer (write_json, write_rttm, write_srt) that fails while it
\* serializes leaves the destination as it was before the call, here a file
\* that does not exist, or completely written.
C20_WriteAllOrNothing ==
    (result.op \in {"write_json", "write_rttm", "write_srt"} /\ result.error # "none")
    => \/ IsNone(file)
       \/ /\ result.op = "write_json"
          /\ Val(file) = JsonComplete(Val(result.arg))

---------------------------------------------------------------------------
(* Properties of the assignments (specification SpecAssign).                *)

WrongType == Some(NotNumber)

\* merge_features needs the axis and an input of it is no number
AxisInputNoNumber ==
    /\ Truthy(audio_annotation)
    /\ NotNumber \in {duration, fps, fps_adjusted}

\* what the setters of the AudioTextIntegrator do with a value
SettersValidate ==
    /\ result.op = "set_time_step" =>
          /\ Val(result.arg).type # "float" => result.error = "TypeError"
          /\ (Val(result.arg).type = "float" /\ Val(result.arg).val < 0)
                => result.error = "ValueError"
          /\ IF result.error = "none" THEN integrator.time_step = Val(result.arg)
             ELSE integrator.time_step # Val(result.arg)
    /\ result.op = "set_audio_transcriber" =>
          /\ Val(result.arg).type # "AudioTranscriber" => result.error = "TypeError"
          /\ IF result.error = "none" THEN integrator.audio_transcriber = Val(result.arg)
             ELSE integrator.audio_transcriber # Val(result.arg)
    /\ integrator.time_step.type \in {"NoneType", "float"}
    /\ integrator.time_step.val >= 0
    /\ integrator.audio_transcriber.type = "AudioTranscriber"

\* C19 as claimed: a value of the wrong type assigned to a typed field (a
\* time step, duration or frame rate that is no number, a component that is
\* no component) fails with TypeError at the assignment and a negative time
\* step with ValueError; no field ever holds such a value, so that no later
\* call meets it.
C19_WrongTypeFailsAtAssignment ==
    /\ SettersValidate
    /\ (result.op \in {"set_duration", "set_fps"} /\ result.arg = WrongType)
          => result.error = "TypeError"
    /\ NotNumber \notin {duration, fps, fps_adjusted}

\* C19, amended: the setters of an AudioTextIntegrator refuse a time step that
\* is no number and a component that is no component with TypeError, and a
\* negative time step with ValueError, at the assignment, the field keeping
\* its value.  A duration or frame rate of a Multimodal that is no number is
\* stored as given: the failure is deferred to merge_features, which raises
\* TypeError when it computes the axis of a Segment collection that holds a
\* segment, and returns without error otherwise.
C19_MultimodalDefersTypeError ==
    /\ SettersValidate
    /\ result.op = "set_duration" => (result.error = "none" /\ Some(duration) = result.arg)
    /\ result.op = "set_fps" => (result.error = "none" /\ Some(fps) = result.arg)
    /\ result.op = "merge_features" =>
          IF AxisInputNoNumber
          THEN result.error = "TypeError" /\ IsNone(features)
          ELSE ~Truthy(audio_annotation) => result.error = "none"

C19_Witness ==
    /\ result.op = "merge_features"
    /\ result.error = "TypeError"
    /\ duration = NotNumber
    /\ ~IsNone(fps) /\ IsNumber(fps)
    /\ integrator.time_step = Py("float", 1)

---------------------------------------------------------------------------
(* Properties of the components (specification SpecApply).                  *)

\* C21: the models of SpeakerIdentifier and SentimentExtractor are loaded only
\* inside an apply that has used them: the pipeline and the classifier are
\* None before the first apply and whenever no apply runs, however the last
\* one ended, so that each apply that needs the model acquires it anew.
C21_ModelScopedToCall ==
    /\ Idle => (IsNone(components.pipeline) /\ IsNone(components.classifier))
    /\ ~IsNone(components.pipeline) =>
          components.pc \in {"identifier_call", "identifier_del"}
    /\ ~IsNone(components.classifier) =>
          components.pc \in {"extractor_call", "extractor_tokenize", "extractor_del"}
    /\ components.pc \in {"identifier_pipeline", "identifier_return"} =>
          IsNone(components.pipeline)

====
